---- MODULE Spec2Model ----
(***************************************************************************)
(* PTZ-Camera-Animator, move.py: the VISCA value codec (encode / decode),  *)
(* interpolate_positions, move_camera and animate_camera, as a state       *)
(* machine.                                                                *)
(*                                                                         *)
(* Strings are sequences of one-character strings.  Python floats are      *)
(* kept as exact rationals [num, den] plus the sign err of the rounding    *)
(* error the float arithmetic may have left (-1, 0, 1): int() of a float   *)
(* whose exact value is a whole number n is n when err = 0 and may fall    *)
(* one short of n (toward zero) otherwise.  A value that is not a whole    *)
(* number is further from the next integer than any rounding error, so     *)
(* its int() is the truncation of the exact value.                         *)
(***************************************************************************)
EXTENDS Integers, Sequences, FiniteSets, TLC

VARIABLES
    mode,        \* CLI mode of the invocation: "prepare" | "run" ("none": no invocation)
    start,       \* start_position: [pan, tilt, zoom], each a stored hex string
    end,         \* end_position
    seconds,     \* the CLI's speed argument, in ticks of 1/TicksPerSecond second
    pc,          \* where the invocation is: "start" | "loop" | "done" | "raised";
                 \* the harness: "call" | "return"
    steps,       \* animate_camera's local `steps`
    step,        \* animate_camera's loop variable
    pan_speed,   \* animate_camera's local pan_speed (a float)
    tilt_speed,  \* animate_camera's local tilt_speed (a float)
    calls,       \* history: the calls of move_camera, in order
    log,         \* history: the commands handed to camera._send_command, in order
    outcome,     \* "none" | "returned" | the exception that ended the invocation
    fn,          \* pure-function harness: the function applied
    arg,         \* its argument
    ret          \* its result (Raise("pending") before the call)

vars == <<mode, start, end, seconds, pc, steps, step, pan_speed, tilt_speed,
          calls, log, outcome, fn, arg, ret>>

runVars == <<mode, start, end, seconds, pc, steps, step, pan_speed, tilt_speed,
             calls, log, outcome>>

pureVars == <<fn, arg, ret>>

-----------------------------------------------------------------------------
(* Bounds of the model *)

\* durations are multiples of 1/TicksPerSecond second
TicksPerSecond == 20
\* the longest duration, in ticks
MaxTicks == 10
\* the shortest (negative) duration is -MinTicks ticks
MinTicks == 3
\* the largest axis value of a stored position in an invocation
MaxPos == 51
\* transport failures per invocation
MaxFail == 1
\* the longest string handed to decode by the harness
MaxStrLen == 8
\* the largest step count handed to interpolate_positions by the harness
MaxT == 3

-----------------------------------------------------------------------------
(* Arithmetic helpers *)

Abs(x) == IF x < 0 THEN -x ELSE x

Sgn(x) == IF x < 0 THEN -1 ELSE IF x > 0 THEN 1 ELSE 0

Min(a, b) == IF a < b THEN a ELSE b

\* Python's int() of the exact quotient a / b: truncation toward zero
TruncDiv(a, b) ==
    LET q == Abs(a) \div Abs(b)
    IN  IF (a < 0) /= (b < 0) THEN -q ELSE q

RECURSIVE Pow(_, _)
Pow(b, n) == IF n = 0 THEN 1 ELSE b * Pow(b, n - 1)

IsPow2(n) == \E k \in 0..12 : n = Pow(2, k)

\* a Python float: the exact rational num / den (den > 0) and the sign of
\* the rounding error
Float(num, den, err) ==
    IF den < 0 THEN [num |-> -num, den |-> -den, err |-> err]
    ELSE [num |-> num, den |-> den, err |-> err]

\* the floats a computation with exact value num / den may yield; `exact`:
\* every operation of the computation is exact in binary floating point
Floats(num, den, exact) ==
    { Float(num, den, e) :
        e \in IF exact \/ num % Abs(den) /= 0 THEN {0} ELSE {-1, 0, 1} }

\* Python's int(f)
IntOf(f) ==
    IF f.num % f.den /= 0 THEN TruncDiv(f.num, f.den)
    ELSE LET n == f.num \div f.den
         IN  IF f.err /= 0 /\ Sgn(n) = -f.err THEN n + f.err ELSE n

-----------------------------------------------------------------------------
(* The value codec *)

HexChars == <<"0", "1", "2", "3", "4", "5", "6", "7",
              "8", "9", "a", "b", "c", "d", "e", "f">>

UpperHex == <<"A", "B", "C", "D", "E", "F">>

\* bytes.fromhex reads both cases; bytes.hex() writes lower case
Lower(c) ==
    IF \E i \in 1..6 : UpperHex[i] = c
    THEN HexChars[10 + CHOOSE i \in 1..6 : UpperHex[i] = c]
    ELSE c

IsHex(c) == \E i \in 1..16 : HexChars[i] = Lower(c)

HexVal(c) == (CHOOSE i \in 1..16 : HexChars[i] = Lower(c)) - 1

\* s.replace(' ', '')
RECURSIVE StripSpaces(_)
StripSpaces(s) ==
    IF s = <<>> THEN <<>>
    ELSE IF Head(s) = " " THEN StripSpaces(Tail(s))
    ELSE <<Head(s)>> \o StripSpaces(Tail(s))

\* s[1::2]
OddChars(s) == [i \in 1..(Len(s) \div 2) |-> s[2 * i]]

\* the unsigned big-endian value of a string of hex digits
RECURSIVE HexToNat(_)
HexToNat(s) ==
    IF s = <<>> THEN 0
    ELSE 16 * HexToNat(SubSeq(s, 1, Len(s) - 1)) + HexVal(s[Len(s)])

\* bytes.fromhex(s): the bytes, written as lower-case hex digits, or a ValueError
FromHexOk(s) == (\A i \in 1..Len(s) : IsHex(s[i])) /\ Len(s) % 2 = 0

FromHex(s) == [i \in 1..Len(s) |-> Lower(s[i])]

\* int.from_bytes(b, 'big', signed=False)
FromBytesUnsigned(h) == HexToNat(h)
\* int.from_bytes(b, 'big', signed=True), b written as hex digits
FromBytesSigned(h) ==
    LET u == HexToNat(h)
        m == Pow(16, Len(h))
    IN  IF Len(h) > 0 /\ 2 * u >= m THEN u - m ELSE u

\* integer.to_bytes(n, 'big', signed=True).hex()
ToBytesOk(v, n) == -(Pow(256, n) \div 2) <= v /\ v < Pow(256, n) \div 2

ToBytesHex(v, n) ==
    LET u == IF v < 0 THEN v + Pow(256, n) ELSE v
    IN  [i \in 1..(2 * n) |-> HexChars[((u \div Pow(16, 2 * n - i)) % 16) + 1]]

\* ' '.join(['0' + char for char in pos_hex])
ZeroPadJoin(h) ==
    [i \in 1..(3 * Len(h) - 1) |->
        IF i % 3 = 1 THEN "0" ELSE IF i % 3 = 2 THEN h[(i + 1) \div 3] ELSE " "]

Value(v) == [ok |-> TRUE, val |-> v]

Raise(e) == [ok |-> FALSE, err |-> e]

encode(integer) ==
    IF ToBytesOk(integer, 2) THEN Value(ZeroPadJoin(ToBytesHex(integer, 2)))
    ELSE Raise("OverflowError")

decode(zero_padded) ==
    LET stripped == StripSpaces(zero_padded)
    IN  IF ~FromHexOk(stripped) THEN Raise("ValueError")
        ELSE LET unpadded == OddChars(FromHex(stripped))
             IN  IF ~FromHexOk(unpadded) THEN Raise("ValueError")
                 ELSE Value(FromBytesSigned(FromHex(unpadded)))

-----------------------------------------------------------------------------
(* interpolate_positions *)

\* linear_interpolation(start, end, t) with t = step / steps: the float
\* start + (end - start) * t.  The product and the sum are exact when t is
\* 0 or 1, when end = start, and when steps is a power of two.
\* (the interpolation run from end to start: end + (start - end) * t)
linear_interpolationReversed(s, e, stp, stps) ==
    Floats(e * stps + (s - e) * stp, stps,
           stp = 0 \/ stp = stps \/ e = s \/ IsPow2(stps))
linear_interpolation(s, e, stp, stps) ==
    Floats(s * stps + (e - s) * stp, stps,
           stp = 0 \/ stp = stps \/ e = s \/ IsPow2(stps))

\* the results interpolate_positions(start, end, step / steps) may have
interpolate_positions(st, en, stp, stps) ==
    LET sp == decode(st.pan)
        sl == decode(st.tilt)
        sz == decode(st.zoom)
        ep == decode(en.pan)
        el == decode(en.tilt)
        ez == decode(en.zoom)
    IN  IF \E r \in {sp, sl, sz, ep, el, ez} : ~r.ok THEN {Raise("ValueError")}
        ELSE { Value([pan  |-> encode(IntOf(p)).val,
                      tilt |-> encode(IntOf(l)).val,
                      zoom |-> encode(IntOf(z)).val]) :
                 p \in linear_interpolation(sp.val, ep.val, stp, stps),
                 l \in linear_interpolation(sl.val, el.val, stp, stps),
                 z \in linear_interpolation(sz.val, ez.val, stp, stps) }

-----------------------------------------------------------------------------
(* move_camera *)

\* the speed envelope of lines 58 and 60
MaxSpeed == 24

\* (the check without its upper end)
SpeedValidNoUpper(s) == -MaxSpeed <= s
SpeedValid(s) == -MaxSpeed <= s /\ s <= MaxSpeed

\* f'{n:x}'
RECURSIVE HexStr(_)
HexStr(n) ==
    IF n < 16 THEN <<HexChars[n + 1]>>
    ELSE HexStr(n \div 16) \o <<HexChars[(n % 16) + 1]>>

\* f'{n:02x}'
Hex2(n) == IF n < 16 THEN <<"0">> \o HexStr(n) ELSE HexStr(n)

PanTiltCommand(position, ps, ts) ==
    <<"0", "6", "0", "2">> \o Hex2(Abs(ps)) \o Hex2(Abs(ts))
        \o position.pan \o position.tilt

ZoomCommand(position) == <<"0", "4", "4", "7">> \o position.zoom

\* the commands of the try block, in the order they are sent
\* (the two sends in the other order)
CommandsZoomFirst(position, ps, ts) ==
    <<ZoomCommand(position), PanTiltCommand(position, ps, ts)>>
Commands(position, ps, ts) ==
    <<PanTiltCommand(position, ps, ts), ZoomCommand(position)>>

\* `except Exception as e: print(...)`: an exception of the transport is
\* caught and reported inside move_camera
\* (no try / except around the sends)
TransportErrorPropagates == FALSE
TransportErrorCaught == TRUE

\* move_camera(camera, position, pan_speed, tilt_speed) at loop step k, the
\* transport accepting the first nok commands and raising on the next:
\* what the call raises ("none": it returns) and the commands it handed to
\* camera._send_command
move_camera(position, pspeed, tspeed, k, nok) ==
    LET ps == IntOf(pspeed)
        ts == IntOf(tspeed)
        cmds == Commands(position, ps, ts)
        n == Min(nok + 1, Len(cmds))
    IN  IF ~SpeedValid(ps) \/ ~SpeedValid(ts)
        THEN [raised |-> "ValueError", sent |-> <<>>]
        ELSE [raised |-> IF nok < Len(cmds) /\ ~TransportErrorCaught
                         THEN "TransportError" ELSE "none",
              sent |-> [i \in 1..n |->
                          [step |-> k, msg |-> cmds[i], ok |-> i <= nok]]]

NumFailed(l) == Cardinality({i \in DOMAIN l : ~l[i].ok})

Call(k, position, pspeed, tspeed, r) ==
    [step |-> k, pos |-> position, ps |-> pspeed, ts |-> tspeed,
     raised |-> r.raised /= "none"]

-----------------------------------------------------------------------------
(* The invocation: modes 'prepare' and 'run' *)

steps_per_second == 10

\* response[1:5].hex() of the device's position reply: the four nibbles of
\* the axis value, each in a byte of its own
DeviceHex(v) ==
    LET h == ToBytesHex(v, 2)
    IN  [i \in 1..8 |-> IF i % 2 = 1 THEN "0" ELSE h[i \div 2]]

PanVals == {-MaxPos, 0, 3}

TiltVals == {0, MaxPos}

ZoomVals == {-1, MaxPos}

StoredPositions ==
    { [pan |-> DeviceHex(p), tilt |-> DeviceHex(l), zoom |-> DeviceHex(z)] :
        p \in PanVals, l \in TiltVals, z \in ZoomVals }

Durations == (-MinTicks)..MaxTicks

NoFloat == Float(0, 1, 0)

PureIdle == fn = "none" /\ arg = <<>> /\ ret = Raise("pending")

RunIdle ==
    /\ mode = "none"
    /\ start = [pan |-> DeviceHex(0), tilt |-> DeviceHex(0), zoom |-> DeviceHex(0)]
    /\ end = start
    /\ seconds = 0
    /\ steps = 0
    /\ step = 0
    /\ pan_speed = NoFloat
    /\ tilt_speed = NoFloat
    /\ calls = <<>>
    /\ log = <<>>
    /\ outcome = "none"

\* the script before its arguments are parsed
Init ==
    /\ RunIdle
    /\ pc = "cli"
    /\ PureIdle

\* parser.parse_args() and load_position: the mode, the duration and the
\* stored positions of the invocation ('prepare' loads the start position
\* only and does not read the duration)
Invoke ==
    /\ pc = "cli"
    /\ mode' \in {"prepare", "run"}
    /\ start' \in StoredPositions
    /\ IF mode' = "run"
       THEN end' \in StoredPositions /\ seconds' \in Durations
       ELSE end' = start' /\ seconds' = 0
    /\ pc' = "start"
    /\ UNCHANGED <<steps, step, pan_speed, tilt_speed, calls, log, outcome>>
    /\ UNCHANGED pureVars

\* int(seconds * steps_per_second)
StepCount(secs) == TruncDiv(secs * steps_per_second, TicksPerSecond)

\* ((distance_per_step / 10) * 24 * 2) - 24 with distance_per_step =
\* dist / stps; every operation is exact when dist is 0, and, for a whole
\* result, when stps divides dist
Speed(dist, stps) ==
    Floats(24 * 2 * dist - 24 * 10 * stps, 10 * stps,
           dist % Abs(stps) = 0)

\* mode 'prepare': move_camera(camera, start_position, 24, 24)
Prepare ==
    /\ mode = "prepare"
    /\ pc = "start"
    /\ \E nok \in 0..2 :
         /\ nok = 2 \/ NumFailed(log) < MaxFail
         /\ LET r == move_camera(start, Float(24, 1, 0), Float(24, 1, 0), 0, nok)
            IN  /\ calls' = Append(calls, Call(0, start, Float(24, 1, 0), Float(24, 1, 0), r))
                /\ log' = log \o r.sent
                /\ pc' = IF r.raised = "none" THEN "done" ELSE "raised"
                /\ outcome' = IF r.raised = "none" THEN "returned" ELSE r.raised
    /\ UNCHANGED <<mode, start, end, seconds, steps, step, pan_speed, tilt_speed>>
    /\ UNCHANGED pureVars

\* animate_camera, lines 133-148: the step count and the two speeds
AnimateEnter ==
    /\ mode = "run"
    /\ pc = "start"
    /\ LET n == StepCount(seconds)
           \* dividing by steps = 0 on line 137 raises ZeroDivisionError
           zero == n = 0
       IN  /\ steps' = n
           /\ pc' = IF zero THEN "raised" ELSE "loop"
           /\ outcome' = IF zero THEN "ZeroDivisionError" ELSE outcome
           /\ pan_speed' \in
                IF zero THEN {pan_speed}
                ELSE Speed(Abs(decode(start.pan).val - decode(end.pan).val), n)
           /\ tilt_speed' \in
                IF zero THEN {tilt_speed}
                ELSE Speed(Abs(decode(start.tilt).val - decode(end.tilt).val), n)
    /\ UNCHANGED <<mode, start, end, seconds, step, calls, log>>
    /\ UNCHANGED pureVars

\* one iteration of `for step in range(steps + 1)`, lines 150-159
AnimateStep ==
    /\ pc = "loop"
    /\ step <= steps
    /\ \E p \in interpolate_positions(start, end, step, steps), nok \in 0..2 :
         /\ nok = 2 \/ NumFailed(log) < MaxFail
         /\ LET r == move_camera(p.val, pan_speed, tilt_speed, step, nok)
            IN  /\ calls' = Append(calls, Call(step, p.val, pan_speed, tilt_speed, r))
                /\ log' = log \o r.sent
                /\ step' = IF r.raised = "none" THEN step + 1 ELSE step
                /\ pc' = IF r.raised = "none" THEN pc ELSE "raised"
                /\ outcome' = IF r.raised = "none" THEN outcome ELSE r.raised
    /\ UNCHANGED <<mode, start, end, seconds, steps, pan_speed, tilt_speed>>
    /\ UNCHANGED pureVars

\* the loop is over: animate_camera returns
AnimateExit ==
    /\ pc = "loop"
    /\ step > steps
    /\ pc' = "done"
    /\ outcome' = "returned"
    /\ UNCHANGED <<mode, start, end, seconds, steps, step, pan_speed, tilt_speed,
                   calls, log>>
    /\ UNCHANGED pureVars

Next == Invoke \/ Prepare \/ AnimateEnter \/ AnimateStep \/ AnimateExit

Spec == Init /\ [][Next]_vars

-----------------------------------------------------------------------------
(* The pure functions on their own: encode, decode, interpolate_positions   *)
(* applied to an argument drawn by Init.                                    *)

\* the values of a 2-byte signed integer
Int16 == (-(Pow(256, 2) \div 2))..(Pow(256, 2) \div 2 - 1)

\* encode's arguments: every 16-bit value and the two nearest values outside
EncodeArgs == (-(Pow(256, 2) \div 2) - 1)..(Pow(256, 2) \div 2)

\* decode's arguments: the strings of a hex digit that is zero, one that is
\* not, a space and a character that is no hex digit
DecodeAlphabet == {"0", "a", " ", "g"}

DecodeArgs == UNION { [1..n -> DecodeAlphabet] : n \in 0..MaxStrLen }

AxisSamples == {-(Pow(256, 2) \div 2), -1, 3, Pow(256, 2) \div 2 - 1}

SamplePositions ==
    { [pan |-> DeviceHex(p), tilt |-> DeviceHex(l), zoom |-> DeviceHex(z)] :
        p \in AxisSamples, l \in AxisSamples, z \in AxisSamples }

InterpolateArgs ==
    { [start |-> a, end |-> b, step |-> k, steps |-> n] :
        a \in SamplePositions, b \in SamplePositions,
        k \in 0..MaxT, n \in 1..MaxT }

InitPure ==
    /\ RunIdle
    /\ pc = "call"
    /\ \/ fn = "encode" /\ arg \in EncodeArgs
       \/ fn = "decode" /\ arg \in DecodeArgs
       \/ fn = "interpolate_positions" /\ arg \in {a \in InterpolateArgs : a.step <= a.steps}
    /\ ret = Raise("pending")

ApplyEncode ==
    /\ pc = "call"
    /\ fn = "encode"
    /\ ret' = encode(arg)
    /\ pc' = "return"
    /\ UNCHANGED <<mode, start, end, seconds, steps, step, pan_speed, tilt_speed,
                   calls, log, outcome, fn, arg>>

ApplyDecode ==
    /\ pc = "call"
    /\ fn = "decode"
    /\ ret' = decode(arg)
    /\ pc' = "return"
    /\ UNCHANGED <<mode, start, end, seconds, steps, step, pan_speed, tilt_speed,
                   calls, log, outcome, fn, arg>>

ApplyInterpolate ==
    /\ pc = "call"
    /\ fn = "interpolate_positions"
    /\ ret' \in interpolate_positions(arg.start, arg.end, arg.step, arg.steps)
    /\ pc' = "return"
    /\ UNCHANGED <<mode, start, end, seconds, steps, step, pan_speed, tilt_speed,
                   calls, log, outcome, fn, arg>>

NextPure == ApplyEncode \/ ApplyDecode \/ ApplyInterpolate

SpecPure == InitPure /\ [][NextPure]_vars

-----------------------------------------------------------------------------
(* Properties *)

Axes == {"pan", "tilt", "zoom"}

Terminated == pc \in {"done", "raised"}

IsPanTilt(msg) == SubSeq(msg, 1, 4) = <<"0", "6", "0", "2">>

IsZoom(msg) == SubSeq(msg, 1, 4) = <<"0", "4", "4", "7">>

\* the float f is below lo or above hi
FloatOutside(f, lo, hi) ==
    \/ f.num < lo * f.den
    \/ f.num = lo * f.den /\ f.err = -1
    \/ f.num > hi * f.den
    \/ f.num = hi * f.den /\ f.err = 1

\* C1: decode(encode(v)) = v for every 16-bit signed v, and encode(v) is
\* four space-separated groups of '0' and a hex digit.
C1_RoundTrip ==
    (pc = "return" /\ fn = "encode" /\ arg \in Int16) =>
        /\ ret.ok
        /\ Len(ret.val) = 11
        /\ \A i \in 1..11 :
             /\ i % 3 = 1 => ret.val[i] = "0"
             /\ i % 3 = 2 => IsHex(ret.val[i])
             /\ i % 3 = 0 => ret.val[i] = " "
        /\ decode(ret.val) = Value(arg)

C1_Witness ==
    /\ pc = "return"
    /\ fn = "encode"
    /\ arg = -2
    /\ ret = Value(<<"0", "f", " ", "0", "f", " ", "0", "f", " ", "0", "e">>)

\* C2: a run whose step count is 0 does not divide by zero and issues
\* exactly one step, at the end position.
C2_ZeroStepsOneStep ==
    (mode = "run" /\ seconds >= 0 /\ StepCount(seconds) = 0 /\ Terminated) =>
        /\ outcome /= "ZeroDivisionError"
        /\ Len(calls) = 1
        /\ \A a \in Axes : decode(calls[1].pos[a]) = decode(end[a])

\* C3: every speed animate_camera hands to move_camera lies in [-24, 24].
C3_SpeedsClamped ==
    mode = "run" =>
        \A i \in DOMAIN calls :
            /\ ~FloatOutside(calls[i].ps, -24, 24)
            /\ ~FloatOutside(calls[i].ts, -24, 24)

\* C4: a run with step count n >= 1 issues exactly n + 1 steps, for step
\* 0, 1, ..., n in that order, each at interpolate_positions(start, end,
\* step / n).
C4_StepSequence ==
    (mode = "run" /\ StepCount(seconds) >= 1 /\ Terminated) =>
        /\ Len(calls) = StepCount(seconds) + 1
        /\ \A i \in DOMAIN calls :
             /\ calls[i].step = i - 1
             /\ Value(calls[i].pos) \in
                  interpolate_positions(start, end, i - 1, StepCount(seconds))

\* C5: interpolate_positions(start, end, 0) decodes to start and
\* interpolate_positions(start, end, 1) decodes to end, on every axis.
C5_InterpolationBoundary ==
    (pc = "return" /\ fn = "interpolate_positions") =>
        /\ arg.step = 0 =>
             /\ ret.ok
             /\ \A a \in Axes :
                  decode(ret.val[a]).ok /\ decode(ret.val[a]) = decode(arg.start[a])
        /\ arg.step = arg.steps =>
             /\ ret.ok
             /\ \A a \in Axes :
                  decode(ret.val[a]).ok /\ decode(ret.val[a]) = decode(arg.end[a])

C5_Witness ==
    /\ pc = "return"
    /\ fn = "interpolate_positions"
    /\ arg.step = arg.steps
    /\ arg.steps = 3
    /\ decode(arg.start.pan) = Value(32767)
    /\ decode(arg.end.pan) = Value(-32768)
    /\ decode(ret.val.pan) = Value(-32768)
    /\ decode(ret.val.tilt) = Value(-1)
    /\ decode(arg.start.tilt) = Value(3)

\* the commands handed to the transport by the call calls[i]
SentBy(i) == {j \in DOMAIN log : log[j].step = calls[i].step}

\* the speed field of a pan/tilt command at characters first, first + 1
SpeedField(msg, first) == HexToNat(SubSeq(msg, first, first + 1))

SpeedFieldsInEnvelope ==
    \A j \in DOMAIN log :
        IsPanTilt(log[j].msg) =>
            /\ IsHex(log[j].msg[5]) /\ IsHex(log[j].msg[6])
            /\ IsHex(log[j].msg[7]) /\ IsHex(log[j].msg[8])
            /\ SpeedField(log[j].msg, 5) \in 0..24
            /\ SpeedField(log[j].msg, 7) \in 0..24

C7_MessageOrder ==
    mode = "run" =>
        /\ \A j \in DOMAIN log :
             /\ IsPanTilt(log[j].msg) \/ IsZoom(log[j].msg)
             /\ IsZoom(log[j].msg) =>
                  /\ j > 1
                  /\ IsPanTilt(log[j - 1].msg)
                  /\ log[j - 1].step = log[j].step
                  /\ log[j - 1].ok
             /\ IsPanTilt(log[j].msg) =>
                  \/ j = 1 /\ log[j].step = 0
                  \/ j > 1 /\ log[j].step = log[j - 1].step + 1
        /\ \A i \in DOMAIN calls :
             ~calls[i].raised =>
                \E j \in DOMAIN log : log[j].step = calls[i].step /\ IsPanTilt(log[j].msg)

C7_Witness ==
    /\ mode = "run"
    /\ Len(log) = 5
    /\ IsPanTilt(log[1].msg) /\ log[1].ok /\ log[1].step = 0
    /\ IsZoom(log[2].msg) /\ log[2].step = 0
    /\ IsPanTilt(log[3].msg) /\ ~log[3].ok /\ log[3].step = 1
    /\ IsPanTilt(log[4].msg) /\ log[4].step = 2
    /\ IsZoom(log[5].msg) /\ log[5].step = 2

\* the steps of the run at which the transport raised
FailedSteps == {log[j].step : j \in {i \in DOMAIN log : ~log[i].ok}}

\* every step after a failed one and before step n was attempted
LaterStepsAttempted(n) ==
    \A k \in FailedSteps :
        \A m \in (k + 1)..(n - 1) :
            \E i \in DOMAIN calls : calls[i].step = m /\ ~calls[i].raised

AfterTransportFailure == mode = "run" /\ FailedSteps /= {}

\* C8: once the transport has raised on a command of step k of a run, the
\* run never ends in an exception: each further step of it is the next
\* iteration of the loop, which leaves it in the loop, or the return after
\* the last iteration; every step after k so far was attempted, and at the
\* return every step k + 1 .. steps.
C8_TransportFailureNonFatal ==
    /\ [](AfterTransportFailure =>
            /\ pc \in {"loop", "done"}
            /\ outcome = IF pc = "done" THEN "returned" ELSE "none"
            /\ step <= steps + 1
            /\ LaterStepsAttempted(step)
            /\ pc = "done" => step = steps + 1)
    /\ [][(AfterTransportFailure /\ pc = "loop") =>
            \/ step <= steps /\ step' = step + 1 /\ pc' = "loop"
            \/ step = steps + 1 /\ step' = step /\ pc' = "done"]_vars

C8_Witness ==
    /\ mode = "run"
    /\ pc = "done"
    /\ steps = 3
    /\ FailedSteps = {1}
    /\ Len(calls) = 4
    /\ step = 4

\* C9: a run with a negative duration ends in an error and transmits
\* nothing.
C9_NegativeDurationRejected ==
    (mode = "run" /\ seconds < 0 /\ Terminated) =>
        (pc = "raised" /\ log = <<>>)

\* the input decode is written for: after stripping spaces, eight hex
\* digits in four groups of '0' and a digit
WellFormed(s) ==
    LET t == StripSpaces(s)
    IN  /\ Len(t) = 8
        /\ \A i \in 1..8 : IsHex(t[i])
        /\ \A i \in {1, 3, 5, 7} : t[i] = "0"

\* C10: decode raises on every input that is not well formed.
C10_MalformedRejected ==
    (pc = "return" /\ fn = "decode" /\ ~WellFormed(arg)) => ~ret.ok

====
